---- MODULE Spec2Model ----
(***************************************************************************)
(* Model of argdispatcher.py: the Dispatcher descriptor (a registry of     *)
(* handlers keyed by a discriminant value), the dispatcher() factory, and  *)
(* the call-time resolution performed by the closure Dispatcher.__get__    *)
(* returns.                                                                *)
(*                                                                         *)
(* A Dispatcher object is a record with the four fields __init__ sets.     *)
(* Every operation of the source is an operator that takes the object and  *)
(* the call's arguments and yields the object afterwards, the exception    *)
(* raised (NoError when none), the value returned and the handler calls    *)
(* made; the actions apply these operators to the class attributes.        *)
(***************************************************************************)
EXTENDS Integers, Sequences, FiniteSets, TLC

VARIABLES registries, last

vars == <<registries, last>>

(***************************************************************************)
(* Bounds of the inputs.                                                   *)
(***************************************************************************)
MaxValue == 2
MaxRest == 1

(***************************************************************************)
(* Python values.                                                          *)
(***************************************************************************)
None == "None"

\* _NOMATCH = object(): equal to nothing but itself, so no value a caller
\* writes is equal to it.
_NOMATCH == "<object>"

EmptyDict == [x \in {} |-> None]

ValueName(i) == "value-" \o ToString(i)

Values == {ValueName(i) : i \in 1..MaxValue}

Handlers == {"cases", "_"}

Instances == {"fk", "fk2"}

\* Truth value of an argument of dispatcher(): None and '' are false.
Truthy(x) == x \notin {None, ""}

KeyArgs == {None, "", "key"}

AttrArgs == {None, "", "attr"}

\* The first positional argument: a dict (read by key) or a plain object
\* (read by attribute), holding at most one of the names.
Subjects ==
    {[kind |-> k, fields |-> f] :
        k \in {"dict", "object"},
        f \in UNION {[D -> Values] : D \in {{}, {"key"}, {"attr"}}}}

RestArgs == UNION {[1..n -> {"args1"}] : n \in 0..MaxRest}

KwArgs == {EmptyDict, [kwargs1 |-> TRUE]}

\* The class attributes a Dispatcher is bound to in the doctests.
Slots == {"ForKey.cases", "ForAttr.cases"}

(***************************************************************************)
(* Exceptions.                                                             *)
(***************************************************************************)
NoError == [exc |-> "", msg |-> <<>>]

MissingSubjectError ==
    [exc |-> "TypeError",
     msg |-> <<"Dispatcher expect at least one positional argument for matching">>]

MissingDiscriminantError(key) ==
    [exc |-> "ValueError", msg |-> <<"First argument doesn't contains key", key>>]

UnregisteredHandlerError(value) ==
    [exc |-> "TypeError", msg |-> <<"Handler for", value, "is not registered">>]

DuplicateHandlerError(value) ==
    [exc |-> "TypeError", msg |-> <<"Handler for", value, "already registered">>]

ConfigurationError ==
    [exc |-> "ValueError",
     msg |-> <<"Provide either \"key\" or \"attr\" argument for matching">>]

\* operator.contains on an object that is no container.
NotIterableError ==
    [exc |-> "TypeError", msg |-> <<"argument of type is not iterable">>]

\* operator.itemgetter / operator.attrgetter on a missing name.
LookupError(name) == [exc |-> "KeyError", msg |-> <<name>>]

(***************************************************************************)
(* The extraction strategies dispatcher() hands to Dispatcher.             *)
(***************************************************************************)
operator_contains(first, key) ==
    IF first.kind = "dict"
    THEN [raised |-> NoError, result |-> key \in DOMAIN first.fields]
    ELSE [raised |-> NotIterableError, result |-> FALSE]

hasattr(first, key) ==
    [raised |-> NoError,
     result |-> first.kind = "object" /\ key \in DOMAIN first.fields]

itemgetter(key, first) ==
    IF first.kind = "dict" /\ key \in DOMAIN first.fields
    THEN [raised |-> NoError, value |-> first.fields[key]]
    ELSE [raised |-> LookupError(key), value |-> None]

attrgetter(attr, first) ==
    IF first.kind = "object" /\ attr \in DOMAIN first.fields
    THEN [raised |-> NoError, value |-> first.fields[attr]]
    ELSE [raised |-> LookupError(attr), value |-> None]

\* self._contains(first, self._key)
_contains(self, first) ==
    IF self._contains = "operator.contains"
    THEN operator_contains(first, self._key)
    ELSE hasattr(first, self._key)

\* self._getter(first)
_getter(self, first) ==
    IF self._getter.fn = "itemgetter"
    THEN itemgetter(self._getter.name, first)
    ELSE attrgetter(self._getter.name, first)

(***************************************************************************)
(* Handlers are opaque callables; one is modelled as returning a record of *)
(* its own name and everything it was called with.                         *)
(***************************************************************************)
HandlerCall(handler, instance, first, rest, kwargs) ==
    [handler |-> handler, instance |-> instance, first |-> first,
     args |-> rest, kwargs |-> kwargs]

HandlerResult(call) == [by |-> call.handler, got |-> call]

(***************************************************************************)
(* class Dispatcher                                                        *)
(***************************************************************************)
_set_link(self, value, handler) ==
    [self EXCEPT !._mapping =
        [v \in DOMAIN self._mapping \cup {value} |->
            IF v = value THEN handler ELSE self._mapping[v]]]

__init__(key, value, handler, getter, contains) ==
    _set_link([_key |-> key, _mapping |-> EmptyDict,
               _getter |-> getter, _contains |-> contains],
              value, handler)

\* Variant: a call without arguments goes on with None as its subject.
first_argument_or_none(args) ==
    IF Len(args) = 0
    THEN [raised |-> NoError, first |-> [kind |-> "object", fields |-> EmptyDict]]
    ELSE [raised |-> NoError, first |-> args[1]]

\* try: first = args[0] / except IndexError: raise TypeError
first_argument(args) ==
    IF Len(args) = 0
    THEN [raised |-> MissingSubjectError, first |-> None]
    ELSE [raised |-> NoError, first |-> args[1]]

\* Variant: the key check is skipped once a default handler exists.
check_key_unless_default(self, first) ==
    LET c == _contains(self, first)
    IN  IF _NOMATCH \in DOMAIN self._mapping THEN NoError
        ELSE IF c.raised # NoError THEN c.raised
        ELSE IF ~c.result THEN MissingDiscriminantError(self._key)
        ELSE NoError

\* if not self._contains(first, self._key): raise ValueError
check_key(self, first) ==
    LET c == _contains(self, first)
    IN  IF c.raised # NoError THEN c.raised
        ELSE IF ~c.result THEN MissingDiscriminantError(self._key)
        ELSE NoError

\* Variant: the default handler, once registered, shadows every value.
resolve_default_first(self, value) ==
    IF _NOMATCH \in DOMAIN self._mapping
    THEN [raised |-> NoError, value |-> _NOMATCH]
    ELSE IF value \notin DOMAIN self._mapping
    THEN [raised |-> UnregisteredHandlerError(value), value |-> None]
    ELSE [raised |-> NoError, value |-> value]

\* Variant: an unregistered value without a default falls back to some
\* registered handler instead of raising.
resolve_fallback(self, value) ==
    IF value \notin DOMAIN self._mapping
    THEN IF _NOMATCH \notin DOMAIN self._mapping
         THEN [raised |-> NoError,
               value |-> CHOOSE v \in DOMAIN self._mapping : TRUE]
         ELSE [raised |-> NoError, value |-> _NOMATCH]
    ELSE [raised |-> NoError, value |-> value]

\* if value not in self._mapping: ... raise TypeError / value = _NOMATCH
resolve(self, value) ==
    IF value \notin DOMAIN self._mapping
    THEN IF _NOMATCH \notin DOMAIN self._mapping
         THEN [raised |-> UnregisteredHandlerError(value), value |-> None]
         ELSE [raised |-> NoError, value |-> _NOMATCH]
    ELSE [raised |-> NoError, value |-> value]

\* Variant: the handler is called with args instead of args[1:], so it
\* gets the subject twice.
invoke_all_args(self, value, instance, args, kwargs) ==
    LET call == HandlerCall(self._mapping[value], instance, args[1],
                            args, kwargs)
    IN  [self |-> self, raised |-> NoError,
         returned |-> HandlerResult(call), calls |-> <<call>>]

\* return self._mapping[value](instance, first, *args[1:], **kwargs)
invoke(self, value, instance, args, kwargs) ==
    LET call == HandlerCall(self._mapping[value], instance, args[1],
                            Tail(args), kwargs)
    IN  [self |-> self, raised |-> NoError,
         returned |-> HandlerResult(call), calls |-> <<call>>]

Raise(self, error) ==
    [self |-> self, raised |-> error, returned |-> None, calls |-> <<>>]

\* The closure __get__ returns, called with (*args, **kwargs).
wrapper(self, instance, args, kwargs) ==
    LET a == first_argument(args)
    IN  IF a.raised # NoError THEN Raise(self, a.raised)
        ELSE
        LET k == check_key(self, a.first)
        IN  IF k # NoError THEN Raise(self, k)
            ELSE
            LET g == _getter(self, a.first)
            IN  IF g.raised # NoError THEN Raise(self, g.raised)
                ELSE
                LET r == resolve(self, g.value)
                IN  IF r.raised # NoError THEN Raise(self, r.raised)
                    ELSE invoke(self, r.value, instance, args, kwargs)

\* Variant: the handler found for a value through the default slot is
\* remembered under that value.
__get__memo(self, instance, args, kwargs) ==
    LET out == wrapper(self, instance, args, kwargs)
    IN  IF out.raised = NoError
        THEN [out EXCEPT !.self =
                 _set_link(self, args[1].fields[self._key],
                           out.calls[1].handler)]
        ELSE out

__get__(self, instance, args, kwargs) == wrapper(self, instance, args, kwargs)

\* Variant: no duplicate check, a second registration replaces the first.
match_overwrite(self, value, method) ==
    LET linked == _set_link(self, value, method)
    IN  [self |-> linked, raised |-> NoError, returned |-> linked,
         calls |-> <<>>]

\* match(value)(method)
match(self, value, method) ==
    IF value \in DOMAIN self._mapping
    THEN Raise(self, DuplicateHandlerError(value))
    ELSE LET linked == _set_link(self, value, method)
         IN  [self |-> linked, raised |-> NoError, returned |-> linked,
              calls |-> <<>>]

\* Variant: the first default handler is kept.
nomatch_first_wins(self, method) ==
    LET linked == IF _NOMATCH \in DOMAIN self._mapping THEN self
                  ELSE _set_link(self, _NOMATCH, method)
    IN  [self |-> linked, raised |-> NoError, returned |-> linked,
         calls |-> <<>>]

nomatch(self, method) ==
    LET linked == _set_link(self, _NOMATCH, method)
    IN  [self |-> linked, raised |-> NoError, returned |-> linked,
         calls |-> <<>>]

\* Variant: attr is tested before key.
dispatcher_attr_first(attr, key, value, method) ==
    IF Truthy(attr)
    THEN [raised |-> NoError,
          returned |-> __init__(attr, value, method,
                                [fn |-> "attrgetter", name |-> attr],
                                "hasattr")]
    ELSE IF Truthy(key)
    THEN [raised |-> NoError,
          returned |-> __init__(key, value, method,
                                [fn |-> "itemgetter", name |-> key],
                                "operator.contains")]
    ELSE [raised |-> ConfigurationError, returned |-> None]

\* dispatcher(attr, key, value)(method)
dispatcher(attr, key, value, method) ==
    IF Truthy(key)
    THEN [raised |-> NoError,
          returned |-> __init__(key, value, method,
                                [fn |-> "itemgetter", name |-> key],
                                "operator.contains")]
    ELSE IF Truthy(attr)
    THEN [raised |-> NoError,
          returned |-> __init__(attr, value, method,
                                [fn |-> "attrgetter", name |-> attr],
                                "hasattr")]
    ELSE [raised |-> ConfigurationError, returned |-> None]

(***************************************************************************)
(* State: the Dispatcher bound to each class attribute, and a record of    *)
(* the last call made (its arguments, the attributes before it, and its    *)
(* outcome).                                                               *)
(***************************************************************************)
Init ==
    /\ registries = [s \in {} |-> None]
    /\ last = [op |-> "init", reg |-> None, input |-> None,
               before |-> [s \in {} |-> None],
               raised |-> NoError, returned |-> None, calls |-> <<>>]

\* @dispatcher(attr=..., key=..., value=...) over a method in a class body:
\* the name is bound to the Dispatcher unless the decorator raises.
Define(r, attr, key, value, method) ==
    /\ r \notin DOMAIN registries
    /\ LET out == dispatcher(attr, key, value, method)
       IN  /\ registries' =
                IF out.raised = NoError
                THEN [s \in DOMAIN registries \cup {r} |->
                        IF s = r THEN out.returned ELSE registries[s]]
                ELSE registries
           /\ last' = [op |-> "dispatcher", reg |-> r,
                       input |-> [attr |-> attr, key |-> key,
                                  value |-> value, method |-> method],
                       before |-> registries,
                       raised |-> out.raised, returned |-> out.returned,
                       calls |-> <<>>]

\* Variant: _mapping is one dict shared by every Dispatcher (a class
\* attribute), so a value held by any of them is a duplicate.
MatchSharedMapping(r, value, method) ==
    /\ r \in DOMAIN registries
    /\ LET out == IF \E s \in DOMAIN registries :
                        value \in DOMAIN registries[s]._mapping
                  THEN Raise(registries[r], DuplicateHandlerError(value))
                  ELSE match(registries[r], value, method)
       IN  /\ registries' = [registries EXCEPT ![r] = out.self]
           /\ last' = [op |-> "match", reg |-> r,
                       input |-> [value |-> value, method |-> method],
                       before |-> registries,
                       raised |-> out.raised, returned |-> out.returned,
                       calls |-> out.calls]

\* @<r>.match(value=...) over a method.
Match(r, value, method) ==
    /\ r \in DOMAIN registries
    /\ LET out == match(registries[r], value, method)
       IN  /\ registries' = [registries EXCEPT ![r] = out.self]
           /\ last' = [op |-> "match", reg |-> r,
                       input |-> [value |-> value, method |-> method],
                       before |-> registries,
                       raised |-> out.raised, returned |-> out.returned,
                       calls |-> out.calls]

\* @<r>.nomatch over a method.
NoMatch(r, method) ==
    /\ r \in DOMAIN registries
    /\ LET out == nomatch(registries[r], method)
       IN  /\ registries' = [registries EXCEPT ![r] = out.self]
           /\ last' = [op |-> "nomatch", reg |-> r,
                       input |-> [method |-> method],
                       before |-> registries,
                       raised |-> out.raised, returned |-> out.returned,
                       calls |-> out.calls]

\* instance.<r>(*args, **kwargs)
Dispatch(r, instance, args, kwargs) ==
    /\ r \in DOMAIN registries
    /\ LET out == __get__(registries[r], instance, args, kwargs)
       IN  /\ registries' = [registries EXCEPT ![r] = out.self]
           /\ last' = [op |-> "dispatch", reg |-> r,
                       input |-> [instance |-> instance, args |-> args,
                                  kwargs |-> kwargs],
                       before |-> registries,
                       raised |-> out.raised, returned |-> out.returned,
                       calls |-> out.calls]

\* All positional argument lists: none, or a subject and the rest.
ArgLists == {<<>>} \cup {<<s>> \o rest : s \in Subjects, rest \in RestArgs}

\* One class with one dispatching method, used through two instances.
Next ==
    \/ \E attr \in AttrArgs, key \in KeyArgs, value \in Values,
          method \in Handlers :
          Define("ForKey.cases", attr, key, value, method)
    \/ \E value \in Values, method \in Handlers :
          Match("ForKey.cases", value, method)
    \/ \E method \in Handlers : NoMatch("ForKey.cases", method)
    \/ \E instance \in Instances, args \in ArgLists, kwargs \in KwArgs :
          Dispatch("ForKey.cases", instance, args, kwargs)

Spec == Init /\ [][Next]_vars

\* The two classes of the doctests, ForKey (key mode) and ForAttr (attribute
\* mode), each with its own Dispatcher, defined and used side by side.
DoctestSubject(r, value) ==
    IF r = "ForKey.cases"
    THEN [kind |-> "dict", fields |-> [n \in {"key"} |-> value]]
    ELSE [kind |-> "object", fields |-> [n \in {"attr"} |-> value]]

NextTwo ==
    \/ \E value \in Values, method \in Handlers :
          Define("ForKey.cases", None, "key", value, method)
    \/ \E value \in Values, method \in Handlers :
          Define("ForAttr.cases", "attr", None, value, method)
    \/ \E r \in Slots, value \in Values, method \in Handlers :
          Match(r, value, method)
    \/ \E r \in Slots, method \in Handlers : NoMatch(r, method)
    \/ \E r \in Slots, value \in Values :
          Dispatch(r, "fk", <<DoctestSubject(r, value)>>, EmptyDict)

SpecTwo == Init /\ [][NextTwo]_vars

(***************************************************************************)
(* Vocabulary of the properties.  Each property reads the record of the    *)
(* last call: the Dispatcher as it was before the call (Before), the       *)
(* call's arguments and its outcome.                                       *)
(***************************************************************************)
Before == last.before[last.reg]

After == registries[last.reg]

Dispatched == last.op = "dispatch"

Subject == last.input.args[1]

DispatchedSubject == Dispatched /\ Len(last.input.args) > 0

KeyMode(self) == self._getter.fn = "itemgetter"

\* The subject has the configured key (a dict, in key mode) or attribute
\* (an object, in attribute mode).
Exposes(self, first) ==
    /\ first.kind = (IF KeyMode(self) THEN "dict" ELSE "object")
    /\ self._key \in DOMAIN first.fields

\* The subject is of a shape the mode can test and has no such key
\* (key mode: a dict) or attribute (attribute mode: anything).
Lacks(self, first) ==
    /\ KeyMode(self) => first.kind = "dict"
    /\ ~Exposes(self, first)

Discriminant == Subject.fields[Before._key]

Registered(self) == DOMAIN self._mapping \ {_NOMATCH}

HasDefault(self) == _NOMATCH \in DOMAIN self._mapping

\* The one call a dispatch is expected to make to handler h.
ExpectedCall(h) ==
    HandlerCall(h, last.input.instance, Subject, Tail(last.input.args),
                last.input.kwargs)

InvokedExactly(h) ==
    /\ last.raised = NoError
    /\ last.calls = <<ExpectedCall(h)>>
    /\ last.returned = HandlerResult(ExpectedCall(h))

FailedWith(error) ==
    /\ last.raised = error
    /\ last.calls = <<>>

\* C1: a dispatch whose subject's discriminant value has a registered
\* handler calls that handler, once, with (instance, subject, *rest,
\* **kwargs) and returns its result unchanged.
C1_DispatchRegistered ==
    (/\ DispatchedSubject
     /\ Exposes(Before, Subject)
     /\ Discriminant \in Registered(Before))
    => InvokedExactly(Before._mapping[Discriminant])

\* The value was dispatched among several registered ones and a default,
\* with extra positional and keyword arguments, to a handler other than
\* the default's.
C1_Witness ==
    /\ DispatchedSubject
    /\ Exposes(Before, Subject)
    /\ Registered(Before) = Values
    /\ HasDefault(Before)
    /\ Before._mapping[Discriminant] # Before._mapping[_NOMATCH]
    /\ Len(last.input.args) > 1
    /\ last.input.kwargs # EmptyDict
    /\ last.raised = NoError

\* C2: with a default handler registered, a dispatch whose subject exposes
\* the discriminant goes to the default exactly when the value has no
\* handler of its own, and to the value's own handler otherwise.
C2_DefaultOnlyWhenUnregistered ==
    (/\ DispatchedSubject
     /\ Exposes(Before, Subject)
     /\ HasDefault(Before))
    => IF Discriminant \in Registered(Before)
       THEN InvokedExactly(Before._mapping[Discriminant])
       ELSE InvokedExactly(Before._mapping[_NOMATCH])

\* An unregistered value went to a default that differs from every
\* registered handler.
C2_Witness ==
    /\ DispatchedSubject
    /\ Exposes(Before, Subject)
    /\ HasDefault(Before)
    /\ Discriminant \notin Registered(Before)
    /\ \A v \in Registered(Before) :
          Before._mapping[v] # Before._mapping[_NOMATCH]
    /\ last.raised = NoError
    /\ last.calls # <<>>

\* C3: without a default handler, a dispatch whose subject exposes the
\* discriminant with an unregistered value raises the not-registered error
\* carrying the value, and calls no handler.
C3_UnregisteredFails ==
    (/\ DispatchedSubject
     /\ Exposes(Before, Subject)
     /\ ~HasDefault(Before)
     /\ Discriminant \notin Registered(Before))
    => FailedWith(UnregisteredHandlerError(Discriminant))

\* An exposed, unregistered value was dispatched with no default present.
C3_Witness ==
    /\ DispatchedSubject
    /\ Exposes(Before, Subject)
    /\ ~HasDefault(Before)
    /\ Discriminant \notin Registered(Before)
    /\ last.raised = UnregisteredHandlerError(Discriminant)
    /\ last.calls = <<>>

\* C4: match(value)(method) raises the already-registered error exactly
\* when value has a handler in that same Dispatcher (the value given at
\* construction included); otherwise it links value to method there,
\* whatever the other Dispatcher holds, and neither call touches the other
\* Dispatcher.  A Dispatcher is constructed holding its first value only.
C4_DuplicatePerRegistry ==
    /\ last.op = "match" =>
          /\ IF last.input.value \in DOMAIN Before._mapping
             THEN /\ FailedWith(DuplicateHandlerError(last.input.value))
                  /\ After = Before
             ELSE /\ last.raised = NoError
                  /\ After._mapping[last.input.value] = last.input.method
          /\ \A s \in DOMAIN last.before \ {last.reg} :
                registries[s] = last.before[s]
    /\ (last.op = "dispatcher" /\ last.raised = NoError) =>
          /\ DOMAIN After._mapping = {last.input.value}
          /\ \A s \in DOMAIN last.before : registries[s] = last.before[s]

\* A value was added to one Dispatcher while the other already held it.
C4_Witness ==
    /\ last.op = "match"
    /\ last.raised = NoError
    /\ \E s \in DOMAIN registries \ {last.reg} :
          last.input.value \in DOMAIN registries[s]._mapping

\* C5: a dispatch with no positional argument raises the missing-argument
\* error, whatever the keyword arguments and the Dispatcher's contents, and
\* calls no handler.
C5_NoSubjectFails ==
    (Dispatched /\ Len(last.input.args) = 0)
    => FailedWith(MissingSubjectError)

C5_Witness ==
    /\ Dispatched
    /\ Len(last.input.args) = 0
    /\ last.input.kwargs # EmptyDict
    /\ HasDefault(Before)
    /\ last.raised # NoError

Supplied(x) == Truthy(x)

\* C7 as claimed: dispatcher(...) constructs a Dispatcher exactly when one
\* of key and attr, and not both, is supplied, and raises otherwise.
C7_ExactlyOneSupplied ==
    last.op = "dispatcher" =>
        IF Supplied(last.input.key) # Supplied(last.input.attr)
        THEN last.raised = NoError
        ELSE last.raised = ConfigurationError

\* C7 as the code has it: dispatcher(...) raises exactly when neither key
\* nor attr is a true value (None and '' are not); a true key gives a
\* key-mode Dispatcher whether or not attr is given too, otherwise a true
\* attr gives an attribute-mode one; the Dispatcher holds the first handler
\* under value and nothing else, and nothing is bound when it raises.
C7_EitherSupplied ==
    last.op = "dispatcher" =>
        IF Truthy(last.input.key)
        THEN /\ last.raised = NoError
             /\ After._key = last.input.key
             /\ After._getter = [fn |-> "itemgetter", name |-> last.input.key]
             /\ After._contains = "operator.contains"
             /\ After._mapping =
                   [v \in {last.input.value} |-> last.input.method]
        ELSE IF Truthy(last.input.attr)
        THEN /\ last.raised = NoError
             /\ After._key = last.input.attr
             /\ After._getter = [fn |-> "attrgetter", name |-> last.input.attr]
             /\ After._contains = "hasattr"
             /\ After._mapping =
                   [v \in {last.input.value} |-> last.input.method]
        ELSE /\ last.raised = ConfigurationError
             /\ registries = last.before

\* Both key and attr were given and a key-mode Dispatcher was constructed.
C7_Witness ==
    /\ last.op = "dispatcher"
    /\ Truthy(last.input.key)
    /\ Truthy(last.input.attr)
    /\ last.raised = NoError
    /\ KeyMode(After)

\* C8: nomatch(method) never raises; afterwards the default slot holds
\* method, whatever it held before, and every other entry is as it was.
C8_DefaultLastWins ==
    last.op = "nomatch" =>
        /\ last.raised = NoError
        /\ last.returned = After
        /\ DOMAIN After._mapping = DOMAIN Before._mapping \cup {_NOMATCH}
        /\ After._mapping[_NOMATCH] = last.input.method
        /\ \A v \in Registered(Before) : After._mapping[v] = Before._mapping[v]
        /\ \A v \in Values \ Registered(After) :
              After._mapping[resolve(After, v).value] = last.input.method

\* A second nomatch replaced a different default.
C8_Witness ==
    /\ last.op = "nomatch"
    /\ HasDefault(Before)
    /\ Before._mapping[_NOMATCH] # last.input.method
    /\ After._mapping[_NOMATCH] = last.input.method

\* C9: no call replaces or removes the handler of a registered value, so
\* by induction over the calls every value keeps the handler it was first
\* registered with; a match rejected as a duplicate changes nothing at all.
C9_RegisteredHandlersKept ==
    /\ \A s \in DOMAIN last.before :
          /\ s \in DOMAIN registries
          /\ \A v \in Registered(last.before[s]) :
                /\ v \in Registered(registries[s])
                /\ registries[s]._mapping[v] = last.before[s]._mapping[v]
    /\ (last.op = "match" /\ last.raised # NoError) => registries = last.before

\* A match with another handler was rejected for a value that was
\* registered, with a default present.
C9_Witness ==
    /\ last.op = "match"
    /\ last.raised # NoError
    /\ HasDefault(Before)
    /\ Before._mapping[last.input.value] # last.input.method
    /\ After._mapping[last.input.value] = Before._mapping[last.input.value]

\* C10: a dispatch, whatever its outcome, leaves every Dispatcher as it
\* was: mapping, default slot, discriminant name and extraction strategy.
C10_DispatchLeavesRegistry ==
    Dispatched => registries = last.before

\* A dispatch that reached a handler through the default slot.
C10_Witness ==
    /\ DispatchedSubject
    /\ Exposes(Before, Subject)
    /\ HasDefault(Before)
    /\ Discriminant \notin Registered(Before)
    /\ last.raised = NoError
    /\ registries = last.before

====
